---------------------------- MODULE Spec2Model ----------------------------
(***************************************************************************)
(* SingleLinkedList<Type> (single-linked-list.h) as a state machine.       *)
(*                                                                         *)
(* The heap is a bounded set of cell addresses 1..MaxCells; `new` takes    *)
(* the lowest free address and throws std::bad_alloc when there is none    *)
(* (or when the allocator's quota for the current call is used up).        *)
(* A container object is its embedded sentinel head_ (address -l, link     *)
(* head[l]) and its cached count size[l].  Every action is one call of the *)
(* public interface, run to completion.                                    *)
(***************************************************************************)
EXTENDS Integers, Sequences, FiniteSets

\* ------------------------------------------------------------------ bounds
MaxCells == 3
MaxVal == 2
MaxLen == 2

\* --------------------------------------------------------------- addresses
NULL == 0
NoVal == 0
Lists == {1, 2}
Tmp == 3
Objects == Lists \cup {Tmp}
Cells == 1..MaxCells
Values == 1..MaxVal
Sentinel(l) == 0 - l
Addr == {Sentinel(l) : l \in Objects} \cup {NULL} \cup Cells

VARIABLES alloc, val, next, head, size, live, last

vars == <<alloc, val, next, head, size, live, last>>

\* ------------------------------------------------------------ memory model
\* The memory a call works on: the heap, every container object, the number
\* of allocations the allocator still grants, and the call's outcome.
Mem(k) ==
    [alloc |-> alloc, val |-> val, next |-> next, head |-> head, size |-> size,
     quota |-> k, out |-> "ok", ret |-> NULL]

IsSentinel(p) == p < 0

GetNext(m, p) == IF IsSentinel(p) THEN m.head[0 - p] ELSE m.next[p]

\* The sentinel's value field is never written.
GetVal(m, p) == IF IsSentinel(p) THEN NoVal ELSE m.val[p]

SetNext(m, p, q) ==
    IF IsSentinel(p) THEN [m EXCEPT !.head[0 - p] = q]
    ELSE [m EXCEPT !.next[p] = q]

Free(m) == Cells \ m.alloc

CanNew(m) == m.quota > 0 /\ Free(m) # {}

NewAddr(m) == CHOOSE c \in Free(m) : \A d \in Free(m) : c <= d

\* new Node(v, n)
New(m, v, n) ==
    LET c == NewAddr(m) IN
    [m EXCEPT !.alloc = @ \cup {c}, !.val[c] = v, !.next[c] = n,
              !.quota = @ - 1]

\* delete c
Delete(m, c) ==
    [m EXCEPT !.alloc = @ \ {c}, !.val[c] = NoVal, !.next[c] = NULL]

Throw(m) == [m EXCEPT !.out = "bad_alloc"]

\* ------------------------------------------------------------- traversal
\* The cells visited from p by ++ until end(), at most n of them.
RECURSIVE Walk(_, _, _)
Walk(m, p, n) ==
    IF p = NULL \/ n = 0 THEN <<>>
    ELSE <<p>> \o Walk(m, GetNext(m, p), n - 1)

\* begin() .. end() of container l
Chain(m, l) == Walk(m, m.head[l], MaxCells + 1)

ChainSet(m, l) == LET ch == Chain(m, l) IN {ch[i] : i \in 1..Len(ch)}

\* *it for every it in begin() .. end()
Elems(m, l) == LET ch == Chain(m, l) IN [i \in 1..Len(ch) |-> m.val[ch[i]]]

Now == Mem(0)

\* GetSize() and IsEmpty() read the cached count
GetSize(m, l) == m.size[l]

IsEmpty(m, l) == m.size[l] = 0

\* The storage of an object outside its lifetime (never constructed, or
\* destroyed) holds nothing the program may read.
Unwind(m, l) == [m EXCEPT !.head[l] = NULL, !.size[l] = 0]

\* ------------------------------------------------------------------ cursor
\* BasicIterator(const BasicIterator<Type>& other): the copy constructor of
\* Iterator and the Iterator -> ConstIterator conversion.  node_ starts as
\* nullptr, so for every other.node_ # nullptr a Node is allocated, and the
\* pointer to it is overwritten.  The constructor is noexcept.
IteratorCopy(m, node) ==
    IF NULL # node
    THEN IF CanNew(m) THEN New(m, GetVal(m, node), GetNext(m, node))
         ELSE [m EXCEPT !.out = "terminate"]
    ELSE m

\* BasicIterator::operator++(int) of an Iterator at `node`: old_value is
\* copy-constructed from *this, and `return old_value` copies it once more
\* unless the build elides that copy.  The caller gets the old position.
PostIncrement(m, node, elide) ==
    LET m1 == IteratorCopy(m, node)
        m2 == IF elide \/ m1.out # "ok" THEN m1 ELSE IteratorCopy(m1, node)
    IN [m2 EXCEPT !.ret = node]

\* Passing a cursor to a ConstIterator parameter: a mutable Iterator is
\* converted, a ConstIterator is copied member by member.
PassCursor(m, node, mutable) ==
    IF mutable THEN IteratorCopy(m, node) ELSE m

\* --------------------------------------------------------------- container
RECURSIVE AssignLoop(_, _, _, _)
AssignLoop(m, l, last_new, values) ==
    IF values = <<>> THEN m
    ELSE IF ~CanNew(m) THEN Throw(m)
    ELSE LET node == NewAddr(m)
             m1 == New(m, Head(values), NULL)
             m2 == IF m1.head[l] = NULL
                   THEN SetNext(m1, Sentinel(l), node)
                   ELSE SetNext(m1, last_new, node)
         IN AssignLoop(m2, l, node, Tail(values))

\* Mutant: every node is linked in at the front, so the order is reversed.
Assign_Reversed(m, l, values) ==
    AssignLoop(m, l, NULL, [i \in 1..Len(values) |-> values[Len(values) + 1 - i]])

\* Assign(first, last): `values` is what *it yields over [first, last)
Assign(m, l, values) == AssignLoop(m, l, NULL, values)

\* SingleLinkedList()
DefaultCtor(m, l) == [m EXCEPT !.size[l] = 0, !.head[l] = NULL]

\* SingleLinkedList(std::initializer_list<Type> values)
InitListCtor(m, l, values) ==
    Assign([m EXCEPT !.size[l] = Len(values), !.head[l] = NULL], l, values)

\* Mutant: the copy takes the source's first cell instead of copying cells.
CopyCtor_Shallow(m, l, other) ==
    [m EXCEPT !.size[l] = GetSize(m, other), !.head[l] = m.head[other]]

\* SingleLinkedList(const SingleLinkedList& other)
CopyCtor(m, l, other) ==
    Assign([m EXCEPT !.size[l] = GetSize(m, other), !.head[l] = NULL],
           l, Elems(m, other))

\* Mutant: the cells are deleted and the sentinel still points at the first.
Clear_NoReset(m, l) ==
    [m EXCEPT !.alloc = @ \ ChainSet(m, l), !.size[l] = 0]

\* Mutant: only the first cell is deleted before the sentinel is reset.
Clear_FirstOnly(m, l) ==
    IF m.head[l] # NULL
    THEN [Delete(SetNext(m, Sentinel(l), NULL), m.head[l]) EXCEPT !.size[l] = 0]
    ELSE [m EXCEPT !.size[l] = 0]

RECURSIVE Clear(_, _)
Clear(m, l) ==
    IF m.head[l] # NULL
    THEN LET tmp == m.head[l]
         IN Clear(Delete(SetNext(m, Sentinel(l), m.next[tmp]), tmp), l)
    ELSE [m EXCEPT !.size[l] = 0]

\* ~SingleLinkedList()
Dtor(m, l) == Unwind(Clear(m, l), l)

\* Mutant: the counts are exchanged and the chains are not.
swap_SizesOnly(m, l, other) ==
    [m EXCEPT !.size[l] = m.size[other], !.size[other] = m.size[l]]

\* void swap(SingleLinkedList& other) noexcept
swap(m, l, other) ==
    [m EXCEPT !.head[l] = m.head[other], !.head[other] = m.head[l],
              !.size[l] = m.size[other], !.size[other] = m.size[l]]

\* swap(lhs, rhs), the free function
FreeSwap(m, lhs, rhs) == swap(m, lhs, rhs)

\* Mutant: the old chain, now held by temp, is never destroyed.
CopyAssign_LeakOld(m, l, rhs) ==
    IF l # rhs
    THEN LET t == CopyCtor(m, Tmp, rhs)
         IN IF t.out # "ok" THEN Unwind(t, Tmp)
            ELSE Unwind(swap(t, l, Tmp), Tmp)
    ELSE m

\* Mutant: assignment clears the target and then copies into it.
CopyAssign_InPlace(m, l, rhs) ==
    IF l # rhs
    THEN LET c == Clear(m, l)
         IN Assign([c EXCEPT !.size[l] = GetSize(c, rhs)], l, Elems(c, rhs))
    ELSE m

\* operator=(const SingleLinkedList& rhs): when the constructor of temp
\* throws, temp never lived and its destructor does not run.
CopyAssign(m, l, rhs) ==
    IF l # rhs
    THEN LET t == CopyCtor(m, Tmp, rhs)
         IN IF t.out # "ok" THEN Unwind(t, Tmp)
            ELSE Dtor(swap(t, l, Tmp), Tmp)
    ELSE m

\* Mutant: the new node is not linked to the former first cell.
PushFront_NoLink(m, l, value) ==
    IF ~CanNew(m) THEN Throw(m)
    ELSE LET node == NewAddr(m)
         IN [SetNext(New(m, value, NULL), Sentinel(l), node)
                EXCEPT !.size[l] = @ + 1]

\* Mutant: the count is incremented before the allocation is tried.
PushFront_CountFirst(m, l, value) ==
    IF ~CanNew(m) THEN Throw([m EXCEPT !.size[l] = @ + 1])
    ELSE LET node == NewAddr(m)
         IN [SetNext(New(m, value, m.head[l]), Sentinel(l), node)
                EXCEPT !.size[l] = @ + 1]

PushFront(m, l, value) ==
    IF ~CanNew(m) THEN Throw(m)
    ELSE LET node == NewAddr(m)
         IN [SetNext(New(m, value, m.head[l]), Sentinel(l), node)
                EXCEPT !.size[l] = @ + 1]

\* Mutant: the count is not decremented.
PopFront_NoDecrement(m, l, ndebug) ==
    IF ~ndebug /\ IsEmpty(m, l) THEN [m EXCEPT !.out = "assert"]
    ELSE LET tmp == m.head[l]
         IN IF tmp = NULL THEN [m EXCEPT !.out = "ub"]
            ELSE Delete(SetNext(m, Sentinel(l), m.next[tmp]), tmp)

\* PopFront(): assert(!IsEmpty()) is compiled out under NDEBUG, and then
\* tmp->next_node with tmp = nullptr is undefined.
PopFront(m, l, ndebug) ==
    IF ~ndebug /\ IsEmpty(m, l) THEN [m EXCEPT !.out = "assert"]
    ELSE LET tmp == m.head[l]
         IN IF tmp = NULL THEN [m EXCEPT !.out = "ub"]
            ELSE [Delete(SetNext(m, Sentinel(l), m.next[tmp]), tmp)
                     EXCEPT !.size[l] = @ - 1]

\* Mutant: the new node is not linked to the rest of the chain.
InsertAfter_DropTail(m, l, pos, value) ==
    IF ~CanNew(m) THEN Throw(m)
    ELSE LET new_node == NewAddr(m)
         IN [SetNext(New(m, value, NULL), pos, new_node)
                EXCEPT !.size[l] = @ + 1, !.ret = new_node]

InsertAfter(m, l, pos, value) ==
    IF ~CanNew(m) THEN Throw(m)
    ELSE LET new_node == NewAddr(m)
         IN [SetNext(New(m, value, GetNext(m, pos)), pos, new_node)
                EXCEPT !.size[l] = @ + 1, !.ret = new_node]

\* Mutant: the count is not decremented.
EraseAfter_NoDecrement(m, l, pos) ==
    IF ~IsEmpty(m, l)
    THEN LET tmp == GetNext(m, pos)
         IN IF tmp = NULL THEN [m EXCEPT !.out = "ub"]
            ELSE LET m1 == Delete(SetNext(m, pos, m.next[tmp]), tmp)
                 IN [m1 EXCEPT !.ret = GetNext(m1, pos)]
    ELSE [m EXCEPT !.ret = GetNext(m, pos)]

\* Mutant: the cell is unlinked and not deleted.
EraseAfter_NoDelete(m, l, pos) ==
    IF ~IsEmpty(m, l)
    THEN LET tmp == GetNext(m, pos)
         IN IF tmp = NULL THEN [m EXCEPT !.out = "ub"]
            ELSE LET m1 == [SetNext(m, pos, m.next[tmp])
                               EXCEPT !.size[l] = @ - 1]
                 IN [m1 EXCEPT !.ret = GetNext(m1, pos)]
    ELSE [m EXCEPT !.ret = GetNext(m, pos)]

\* EraseAfter(pos): tmp->next_node with tmp = nullptr is undefined.
EraseAfter(m, l, pos) ==
    IF ~IsEmpty(m, l)
    THEN LET tmp == GetNext(m, pos)
         IN IF tmp = NULL THEN [m EXCEPT !.out = "ub"]
            ELSE LET m1 == [Delete(SetNext(m, pos, m.next[tmp]), tmp)
                               EXCEPT !.size[l] = @ - 1]
                 IN [m1 EXCEPT !.ret = GetNext(m1, pos)]
    ELSE [m EXCEPT !.ret = GetNext(m, pos)]

\* *it = value through a mutable cursor at a real cell
Store(m, pos, value) == [m EXCEPT !.val[pos] = value]

\* -------------------------------------------------------------- comparison
\* std::equal(first1, last1, first2, last2) over forward iterators
RECURSIVE equal(_, _, _)
equal(m, p, q) ==
    IF p # NULL /\ q # NULL
    THEN IF m.val[p] # m.val[q] THEN FALSE
         ELSE equal(m, m.next[p], m.next[q])
    ELSE p = NULL /\ q = NULL

\* std::lexicographical_compare(first1, last1, first2, last2)
RECURSIVE lexicographical_compare(_, _, _)
lexicographical_compare(m, p, q) ==
    IF p # NULL /\ q # NULL
    THEN IF m.val[p] < m.val[q] THEN TRUE
         ELSE IF m.val[q] < m.val[p] THEN FALSE
         ELSE lexicographical_compare(m, m.next[p], m.next[q])
    ELSE p = NULL /\ q # NULL

\* Mutant: std::equal(first1, last1, first2), which stops where lhs ends.
RECURSIVE equal3(_, _, _)
equal3(m, p, q) ==
    IF p = NULL THEN TRUE
    ELSE IF q = NULL THEN FALSE
    ELSE m.val[p] = m.val[q] /\ equal3(m, m.next[p], m.next[q])

OpEq_ThreeIterator(m, lhs, rhs) == equal3(m, m.head[lhs], m.head[rhs])

OpEq(m, lhs, rhs) == equal(m, m.head[lhs], m.head[rhs])

OpNe(m, lhs, rhs) == ~OpEq(m, lhs, rhs)

\* Mutant: the elements alone decide, without the length shortcut.
OpLt_Lexicographic(m, lhs, rhs) ==
    lexicographical_compare(m, m.head[lhs], m.head[rhs])

\* Mutant: the counts alone decide, and equal counts are never less.
OpLt_SizeOnly(m, lhs, rhs) == GetSize(m, lhs) < GetSize(m, rhs)

OpLt(m, lhs, rhs) ==
    IF GetSize(m, lhs) < GetSize(m, rhs) THEN TRUE
    ELSE IF GetSize(m, lhs) > GetSize(m, rhs) THEN FALSE
    ELSE lexicographical_compare(m, m.head[lhs], m.head[rhs])

OpLe(m, lhs, rhs) == ~OpLt(m, rhs, lhs)

OpGt(m, lhs, rhs) == OpLt(m, rhs, lhs)

OpGe(m, lhs, rhs) == ~OpLt(m, lhs, rhs)

\* ------------------------------------------------------------------ calls
\* `last` is the call that ran last: its arguments, how it ended ("ok", a
\* std::bad_alloc that reached the caller, std::terminate, a failed assert,
\* or undefined behaviour) and what it returned.
NoCall ==
    [op |-> "none", l |-> 0, r |-> 0, pos |-> NULL, v |-> NoVal,
     vals |-> <<>>, out |-> "ok", ret |-> NULL, bret |-> FALSE]

\* After std::terminate, abort or undefined behaviour nothing more runs.
Running == last.out \in {"ok", "bad_alloc"}

InitLists == UNION {[1..n -> Values] : n \in 0..MaxLen}

Quotas == 0..MaxCells

\* The positions a caller may pass for container l: before_begin() or a
\* real cell of l.
Positions(l) == {Sentinel(l)} \cup ChainSet(Now, l)

\* The cells some container's chain holds.
Owned(m) == UNION {ChainSet(m, l) : l \in Objects}

\* A cell no pointer leads to can never be read again: the model keeps it
\* allocated and forgets what it holds.
Forget(m) ==
    LET own == Owned(m) IN
    [m EXCEPT !.val = [c \in Cells |-> IF c \in own THEN m.val[c] ELSE NoVal],
              !.next = [c \in Cells |-> IF c \in own THEN m.next[c] ELSE NULL]]

Commit(m, call) ==
    LET f == Forget(m) IN
    /\ alloc' = f.alloc
    /\ val' = f.val
    /\ next' = f.next
    /\ head' = m.head
    /\ size' = m.size
    /\ last' = [call EXCEPT !.out = m.out]

\* A constructor that throws leaves no object behind.
Construct(m, l, call) ==
    /\ Commit(IF m.out = "ok" THEN m ELSE Unwind(m, l), call)
    /\ live' = [live EXCEPT ![l] = (m.out = "ok")]

\* The memory before anything is constructed.
Empty ==
    [alloc |-> {}, val |-> [c \in Cells |-> NoVal],
     next |-> [c \in Cells |-> NULL], head |-> [l \in Objects |-> NULL],
     size |-> [l \in Objects |-> 0], quota |-> MaxCells, out |-> "ok",
     ret |-> NULL]

Init ==
    /\ alloc = {}
    /\ val = [c \in Cells |-> NoVal]
    /\ next = [c \in Cells |-> NULL]
    /\ head = [l \in Objects |-> NULL]
    /\ size = [l \in Objects |-> 0]
    /\ live = [l \in Lists |-> FALSE]
    /\ last = NoCall

DefaultCtorCall(l) ==
    /\ Running /\ ~live[l]
    /\ Construct(DefaultCtor(Mem(0), l), l,
                 [NoCall EXCEPT !.op = "DefaultCtor", !.l = l])

InitListCtorCall(l, values, k) ==
    /\ Running /\ ~live[l]
    /\ Construct(InitListCtor(Mem(k), l, values), l,
                 [NoCall EXCEPT !.op = "InitListCtor", !.l = l,
                                !.vals = values])

CopyCtorCall(l, other, k) ==
    /\ Running /\ ~live[l] /\ live[other]
    /\ Construct(CopyCtor(Mem(k), l, other), l,
                 [NoCall EXCEPT !.op = "CopyCtor", !.l = l, !.r = other])

DtorCall(l) ==
    /\ Running /\ live[l]
    /\ Commit(Dtor(Mem(0), l), [NoCall EXCEPT !.op = "Dtor", !.l = l])
    /\ live' = [live EXCEPT ![l] = FALSE]

CopyAssignCall(l, rhs, k) ==
    /\ Running /\ live[l] /\ live[rhs]
    /\ Commit(CopyAssign(Mem(k), l, rhs),
              [NoCall EXCEPT !.op = "CopyAssign", !.l = l, !.r = rhs])
    /\ UNCHANGED live

\* l.swap(other), or swap(l, other) through the free function
SwapCall(l, other, free) ==
    /\ Running /\ live[l] /\ live[other]
    /\ Commit(IF free THEN FreeSwap(Mem(0), l, other)
              ELSE swap(Mem(0), l, other),
              [NoCall EXCEPT !.op = "swap", !.l = l, !.r = other])
    /\ UNCHANGED live

PushFrontCall(l, value, k) ==
    /\ Running /\ live[l]
    /\ Commit(PushFront(Mem(k), l, value),
              [NoCall EXCEPT !.op = "PushFront", !.l = l, !.v = value])
    /\ UNCHANGED live

\* An undefined call hands the caller anything.
PopFrontCall(l, ndebug) ==
    /\ Running /\ live[l]
    /\ LET m == PopFront(Mem(0), l, ndebug)
           call == [NoCall EXCEPT !.op = "PopFront", !.l = l]
       IN IF m.out = "ub"
          THEN \E g \in Addr : Commit(m, [call EXCEPT !.ret = g])
          ELSE Commit(m, call)
    /\ UNCHANGED live

ClearCall(l) ==
    /\ Running /\ live[l]
    /\ Commit(Clear(Mem(0), l), [NoCall EXCEPT !.op = "Clear", !.l = l])
    /\ UNCHANGED live

InsertAfterCall(l, pos, value, mutable, k) ==
    /\ Running /\ live[l] /\ pos \in Positions(l)
    /\ LET m0 == PassCursor(Mem(k), pos, mutable)
           m == IF m0.out = "ok" THEN InsertAfter(m0, l, pos, value) ELSE m0
       IN Commit(m, [NoCall EXCEPT !.op = "InsertAfter", !.l = l,
                        !.pos = pos, !.v = value, !.ret = m.ret])
    /\ UNCHANGED live

EraseAfterCall(l, pos, mutable, k) ==
    /\ Running /\ live[l] /\ pos \in Positions(l)
    /\ LET m0 == PassCursor(Mem(k), pos, mutable)
           m == IF m0.out = "ok" THEN EraseAfter(m0, l, pos) ELSE m0
           call == [NoCall EXCEPT !.op = "EraseAfter", !.l = l, !.pos = pos]
       IN IF m.out = "ub"
          THEN \E g \in Addr : Commit(m, [call EXCEPT !.ret = g])
          ELSE Commit(m, [call EXCEPT !.ret = m.ret])
    /\ UNCHANGED live

StoreCall(l, pos, value) ==
    /\ Running /\ live[l] /\ pos \in ChainSet(Now, l)
    /\ Commit(Store(Mem(0), pos, value),
              [NoCall EXCEPT !.op = "Store", !.l = l, !.pos = pos,
                             !.v = value])
    /\ UNCHANGED live

\* it++ on a mutable cursor at before_begin(), a real cell or end() of l
PostIncrementCall(l, pos, elide, k) ==
    /\ Running /\ live[l] /\ pos \in Positions(l) \cup {NULL}
    /\ LET m == PostIncrement(Mem(k), pos, elide)
       IN Commit(m, [NoCall EXCEPT !.op = "PostIncrement", !.l = l,
                        !.pos = pos, !.ret = m.ret])
    /\ UNCHANGED live

Compare(name, result, lhs, rhs) ==
    /\ Running /\ live[lhs] /\ live[rhs]
    /\ last' = [NoCall EXCEPT !.op = name, !.l = lhs, !.r = rhs,
                              !.bret = result]
    /\ UNCHANGED <<alloc, val, next, head, size, live>>

OpEqCall(lhs, rhs) == Compare("==", OpEq(Now, lhs, rhs), lhs, rhs)

OpNeCall(lhs, rhs) == Compare("!=", OpNe(Now, lhs, rhs), lhs, rhs)

OpLtCall(lhs, rhs) == Compare("<", OpLt(Now, lhs, rhs), lhs, rhs)

OpLeCall(lhs, rhs) == Compare("<=", OpLe(Now, lhs, rhs), lhs, rhs)

OpGtCall(lhs, rhs) == Compare(">", OpGt(Now, lhs, rhs), lhs, rhs)

OpGeCall(lhs, rhs) == Compare(">=", OpGe(Now, lhs, rhs), lhs, rhs)

Next ==
    \/ \E l \in Lists : DefaultCtorCall(l)
    \/ \E l \in Lists, values \in InitLists, k \in Quotas :
          InitListCtorCall(l, values, k)
    \/ \E l, other \in Lists, k \in Quotas : CopyCtorCall(l, other, k)
    \/ \E l \in Lists : DtorCall(l)
    \/ \E l, rhs \in Lists, k \in Quotas : CopyAssignCall(l, rhs, k)
    \/ \E l, other \in Lists, free \in BOOLEAN : SwapCall(l, other, free)
    \/ \E l \in Lists, value \in Values, k \in 0..1 :
          PushFrontCall(l, value, k)
    \/ \E l \in Lists, ndebug \in BOOLEAN : PopFrontCall(l, ndebug)
    \/ \E l \in Lists : ClearCall(l)
    \/ \E l \in Lists : \E pos \in Positions(l), value \in Values,
          mutable \in BOOLEAN, k \in 0..2 :
          InsertAfterCall(l, pos, value, mutable, k)
    \/ \E l \in Lists : \E pos \in Positions(l), mutable \in BOOLEAN,
          k \in 0..1 :
          EraseAfterCall(l, pos, mutable, k)
    \/ \E l \in Lists : \E pos \in ChainSet(Now, l), value \in Values :
          StoreCall(l, pos, value)
    \/ \E l \in Lists : \E pos \in Positions(l) \cup {NULL},
          elide \in BOOLEAN, k \in 0..2 :
          PostIncrementCall(l, pos, elide, k)

\* The program that constructs two containers from initializer lists and
\* compares them.
NextCmp ==
    \/ \E lhs, rhs \in Lists : OpEqCall(lhs, rhs)
    \/ \E lhs, rhs \in Lists : OpNeCall(lhs, rhs)
    \/ \E lhs, rhs \in Lists : OpLtCall(lhs, rhs)
    \/ \E lhs, rhs \in Lists : OpLeCall(lhs, rhs)
    \/ \E lhs, rhs \in Lists : OpGtCall(lhs, rhs)
    \/ \E lhs, rhs \in Lists : OpGeCall(lhs, rhs)

InitCmp ==
    \E xs, ys \in InitLists :
        LET m == InitListCtor(InitListCtor(Empty, 1, xs), 2, ys) IN
        /\ m.out = "ok"
        /\ alloc = m.alloc /\ val = m.val /\ next = m.next
        /\ head = m.head /\ size = m.size
        /\ live = [l \in Lists |-> TRUE]
        /\ last = NoCall

SpecCmp == InitCmp /\ [][NextCmp]_vars

Spec == Init /\ [][Next]_vars

TypeOK ==
    /\ alloc \subseteq Cells
    /\ head \in [Objects -> {NULL} \cup Cells]
    /\ live \in [Lists -> BOOLEAN]
    /\ head[Tmp] = NULL /\ size[Tmp] = 0

\* ============================================================= properties
\* The memory after the step, for the properties that compare a call's
\* before and after.
After ==
    [alloc |-> alloc', val |-> val', next |-> next', head |-> head',
     size |-> size', quota |-> 0, out |-> "ok", ret |-> NULL]

IndexOf(ch, p) ==
    IF IsSentinel(p) THEN 0 ELSE CHOOSE i \in 1..Len(ch) : ch[i] = p

InsertAt(ch, i, c) == SubSeq(ch, 1, i) \o <<c>> \o SubSeq(ch, i + 1, Len(ch))

RemoveAt(ch, i) == SubSeq(ch, 1, i - 1) \o SubSeq(ch, i + 1, Len(ch))

\* Every cell a container held before the step is still allocated and holds
\* the value it held.
CellsKept(cells) ==
    \A c \in cells : c \in alloc' /\ val'[c] = val[c]

\* Container l is, after the step, what it was before it.
Untouched(l) ==
    /\ head'[l] = head[l]
    /\ size'[l] = size[l]
    /\ Chain(After, l) = Chain(Now, l)
    /\ Elems(After, l) = Elems(Now, l)
    /\ ChainSet(Now, l) \subseteq alloc'

\* C1: in every reachable state, following the links from the sentinel of a
\* live container reaches 'no next' after exactly GetSize() cells (the chain
\* is finite and acyclic, the cached count is its length), and IsEmpty() is
\* true exactly when that length is 0.
C1_SizeIsChainLength ==
    \A l \in Lists : live[l] =>
        LET ch == Chain(Now, l) IN
        /\ Len(ch) <= MaxCells
        /\ \A i, j \in 1..Len(ch) : ch[i] = ch[j] => i = j
        /\ GetSize(Now, l) = Len(ch)
        /\ IsEmpty(Now, l) <=> Len(ch) = 0

C1_Witness ==
    /\ last.op = "EraseAfter" /\ last.out = "ok" /\ last.pos \in Cells
    /\ GetSize(Now, last.l) = 2
    /\ Len(Chain(Now, last.l)) = 2

\* C2: a copy-assignment a = b (a and b distinct) that runs out of memory
\* ends with std::bad_alloc at the caller and leaves a and b exactly as they
\* were: sentinel link, cells, values, order and count.
C2_AssignFailureLeavesTarget ==
    [][(last'.op = "CopyAssign" /\ last'.l # last'.r) =>
          /\ Cardinality(Cells \ alloc) < Len(Chain(Now, last'.r))
                => last'.out = "bad_alloc"
          /\ last'.out = "bad_alloc" =>
                /\ Untouched(last'.l) /\ Untouched(last'.r)
                /\ \A c \in Owned(Now) : next'[c] = next[c] /\ val'[c] = val[c]
      ]_vars

C2_Witness ==
    /\ last.op = "CopyAssign" /\ last.out = "bad_alloc"
    /\ Len(Chain(Now, last.l)) = 1 /\ Len(Chain(Now, last.r)) = 2
    /\ Elems(Now, last.l) # SubSeq(Elems(Now, last.r), 1, 1)

C4_ExclusiveOwnership ==
    \A l \in Lists : live[l] =>
        /\ ChainSet(Now, l) \subseteq alloc
        /\ \A r \in Lists \ {l} :
              live[r] => ChainSet(Now, l) \cap ChainSet(Now, r) = {}

C4_Witness ==
    /\ last.op = "CopyAssign" /\ last.out = "ok" /\ last.l # last.r
    /\ Len(Chain(Now, 1)) = 1 /\ Len(Chain(Now, 2)) = 1
    /\ Cardinality(alloc) = 2

\* The sequence relation C5 states, over the elements alone.
LengthFirstLess(a, b) ==
    \/ Len(a) < Len(b)
    \/ /\ Len(a) = Len(b)
       /\ \E i \in 1..Len(a) :
             /\ \A j \in 1..(i - 1) : a[j] = b[j]
             /\ a[i] < b[i]

\* C5: a < b is true when a has fewer elements than b, false when it has
\* more, and for equal lengths true exactly when a's element is the smaller
\* one at the first index where the two differ.
C5_LessIsLengthFirst ==
    last.op = "<" =>
        last.bret = LengthFirstLess(Elems(Now, last.l), Elems(Now, last.r))

C5_Witness ==
    /\ last.op = "<" /\ last.bret
    /\ Elems(Now, last.l) = <<2>> /\ Elems(Now, last.r) = <<1, 1>>

\* The sequence relation C6 states, over the elements alone.
SameElements(a, b) ==
    /\ Len(a) = Len(b)
    /\ \A i \in 1..Len(a) : a[i] = b[i]

\* C6: a == b is true iff a and b have the same number of elements and equal
\* elements at each position, and a != b is true iff that is not so.
C6_EqualIsElementwise ==
    /\ last.op = "==" =>
          last.bret = SameElements(Elems(Now, last.l), Elems(Now, last.r))
    /\ last.op = "!=" =>
          last.bret = ~SameElements(Elems(Now, last.l), Elems(Now, last.r))

C6_Witness ==
    /\ last.op = "==" /\ ~last.bret
    /\ Elems(Now, last.l) = <<1>> /\ Elems(Now, last.r) = <<1, 2>>

\* C7: a container constructed from a list of n values has GetSize() = n and
\* its traversal from begin() to end() yields those values in that order; an
\* empty list gives begin() = end().
C7_InitListKeepsOrder ==
    (last.op = "InitListCtor" /\ last.out = "ok") =>
        /\ live[last.l]
        /\ GetSize(Now, last.l) = Len(last.vals)
        /\ Elems(Now, last.l) = last.vals
        /\ last.vals = <<>> => head[last.l] = NULL

C7_Witness ==
    /\ last.op = "InitListCtor" /\ last.out = "ok"
    /\ last.vals = <<1, 2>> /\ Elems(Now, last.l) = <<1, 2>>

\* C8: a successful InsertAfter(pos, v) at before-begin or a real cell puts
\* one new cell holding v right after pos, returns that cell, adds 1 to the
\* count, and keeps every earlier cell (of every container) allocated, with
\* its value, in the same relative order.
C8_InsertAfterFrame ==
    [][(last'.op = "InsertAfter" /\ last'.out = "ok") =>
          LET l == last'.l
              ch == Chain(Now, l)
          IN /\ last'.ret \in Cells \ alloc
             /\ last'.ret \in alloc'
             /\ val'[last'.ret] = last'.v
             /\ Chain(After, l) = InsertAt(ch, IndexOf(ch, last'.pos), last'.ret)
             /\ GetNext(After, last'.pos) = last'.ret
             /\ size'[l] = size[l] + 1
             /\ CellsKept(Owned(Now))
             /\ \A c \in Lists \ {l} : Untouched(c)
      ]_vars

C8_Witness ==
    /\ last.op = "InsertAfter" /\ last.out = "ok" /\ last.pos \in Cells
    /\ Len(Chain(Now, last.l)) = 3
    /\ Chain(Now, last.l)[2] = last.ret

\* C9: EraseAfter(pos) at a position with a successor removes and deletes
\* exactly that successor, subtracts 1 from the count, returns the cell that
\* followed it (end() if none), and keeps every other cell allocated, with
\* its value, in the same relative order.
C9_EraseAfterFrame ==
    [][(/\ last'.op = "EraseAfter"
        /\ GetNext(Now, last'.pos) # NULL
        /\ last'.out # "terminate") =>
          LET l == last'.l
              ch == Chain(Now, l)
              gone == GetNext(Now, last'.pos)
          IN /\ last'.out = "ok"
             /\ gone \notin alloc'
             /\ Owned(After) = Owned(Now) \ {gone}
             /\ Chain(After, l) = RemoveAt(ch, IndexOf(ch, last'.pos) + 1)
             /\ size'[l] = size[l] - 1
             /\ last'.ret = next[gone]
             /\ GetNext(After, last'.pos) = last'.ret
             /\ CellsKept(Owned(Now) \ {gone})
             /\ \A c \in Lists \ {l} : Untouched(c)
      ]_vars

C9_Witness ==
    /\ last.op = "EraseAfter" /\ last.out = "ok" /\ last.pos \in Cells
    /\ last.ret \in Cells
    /\ Len(Chain(Now, last.l)) = 2
    /\ Cardinality(alloc) = 2

\* C10: EraseAfter(pos) with pos at the last real cell returns end().
C10_EraseAfterLastReturnsEnd ==
    (/\ last.op = "EraseAfter"
     /\ last.pos \in Cells
     /\ GetNext(Now, last.pos) = NULL
     /\ last.out # "terminate") =>
        (last.out = "ok" /\ last.ret = NULL)

\* Every cell a container held before the step is, in memory m, allocated
\* and holds the value and the link it held.
SameCells(m) ==
    \A c \in Owned(Now) :
        c \in m.alloc /\ m.val[c] = val[c] /\ m.next[c] = next[c]

\* C11: PopFront() run right after a successful PushFront(v) gives back the
\* count and the sequence from before the PushFront, with every earlier cell
\* the same cell at the same position, holding the same value.
C11_PushPopRestores ==
    [][/\ (last'.op = "PushFront" /\ last'.out = "ok") =>
             \A ndebug \in BOOLEAN :
                 LET l == last'.l
                     m2 == PopFront(After, l, ndebug)
                 IN /\ m2.out = "ok"
                    /\ Chain(m2, l) = Chain(Now, l)
                    /\ Elems(m2, l) = Elems(Now, l)
                    /\ GetSize(m2, l) = GetSize(Now, l)
                    /\ m2.alloc = alloc
                    /\ SameCells(m2)
       /\ (/\ last.op = "PushFront" /\ last.out = "ok"
           /\ last'.op = "PopFront" /\ last'.l = last.l) =>
             LET l == last.l
             IN /\ last'.out = "ok"
                /\ head[l] \notin alloc'
                /\ Chain(After, l) = Tail(Chain(Now, l))
                /\ Elems(After, l) = Tail(Elems(Now, l))
                /\ size'[l] = size[l] - 1
                /\ CellsKept(Owned(Now) \ {head[l]})
      ]_vars

C11_Witness ==
    /\ last.op = "PushFront" /\ last.out = "ok"
    /\ Len(Chain(Now, last.l)) = 3
    /\ PopFront(Now, last.l, FALSE).out = "ok"
    /\ Len(Chain(PopFront(Now, last.l, FALSE), last.l)) = 2

\* C12: on the same state and value, InsertAfter(before_begin(), v) and
\* PushFront(v) give the same sequence of values and the same count, and the
\* cursor InsertAfter returns is begin() of the result.
C12_InsertAtFrontIsPushFront ==
    [][/\ (/\ last'.op = "InsertAfter" /\ last'.out = "ok"
           /\ last'.pos = Sentinel(last'.l)) =>
             LET l == last'.l
                 p == PushFront(Mem(1), l, last'.v)
             IN /\ p.out = "ok"
                /\ Elems(After, l) = Elems(p, l)
                /\ size'[l] = GetSize(p, l)
                /\ last'.ret = head'[l]
       /\ (last'.op = "PushFront" /\ last'.out = "ok") =>
             LET l == last'.l
                 i == InsertAfter(Mem(1), l, Sentinel(l), last'.v)
             IN /\ i.out = "ok"
                /\ Elems(After, l) = Elems(i, l)
                /\ size'[l] = GetSize(i, l)
                /\ i.ret = i.head[l]
      ]_vars

C12_Witness ==
    /\ last.op = "InsertAfter" /\ last.out = "ok"
    /\ last.pos = Sentinel(last.l)
    /\ Len(Chain(Now, last.l)) = 2
    /\ last.ret = head[last.l]

\* C13: swap exchanges the two containers' chains and counts and neither
\* allocates nor frees nor writes a cell: each container then holds the
\* other's former cells, in order, with their values.
C13_SwapExchanges ==
    [][(last'.op = "swap") =>
          LET a == last'.l
              b == last'.r
          IN /\ last'.out = "ok"
             /\ alloc' = alloc /\ val' = val /\ next' = next
             /\ head'[a] = head[b] /\ head'[b] = head[a]
             /\ size'[a] = size[b] /\ size'[b] = size[a]
             /\ Chain(After, a) = Chain(Now, b)
             /\ Chain(After, b) = Chain(Now, a)
             /\ Elems(After, a) = Elems(Now, b)
             /\ Elems(After, b) = Elems(Now, a)
             /\ \A c \in Lists \ {a, b} : Untouched(c)
      ]_vars

C13_Witness ==
    /\ last.op = "swap" /\ last.l # last.r
    /\ Len(Chain(Now, last.l)) = 2 /\ Len(Chain(Now, last.r)) = 1
    /\ size[last.l] = 2 /\ size[last.r] = 1

C15_ClearReleasesAll ==
    [][(last'.op \in {"Clear", "Dtor"}) =>
          LET l == last'.l
          IN /\ last'.out = "ok"
             /\ alloc' = alloc \ ChainSet(Now, l)
             /\ head'[l] = NULL
             /\ size'[l] = 0
             /\ Chain(After, l) = <<>>
             /\ live'[l] = (last'.op = "Clear")
             /\ \A c \in Lists \ {l} : live[c] => Untouched(c)
      ]_vars

C15_Witness ==
    /\ last.op = "Clear" /\ last.out = "ok"
    /\ head[last.l] = NULL /\ size[last.l] = 0
    /\ \E c \in Lists \ {last.l} : live[c] /\ head[c] = 3 /\ alloc = {3}

\* C16: copying a mutable cursor, as post-increment does, allocates no cell:
\* the set of allocated cells is the same before and after, and the copy
\* refers to the cell the original referred to.
C16_CursorCopyAllocatesNothing ==
    [][(last'.op = "PostIncrement" /\ last'.out = "ok") =>
          (alloc' = alloc /\ last'.ret = last'.pos)]_vars

\* C17: with assertions enabled, PopFront() on an empty container and
\* EraseAfter(before_begin()) on an empty container both stop at a failed
\* assertion instead of returning normally.
C17_EmptyRemovalAsserts ==
    [][(/\ last'.op \in {"PopFront", "EraseAfter"}
        /\ IsEmpty(Now, last'.l) /\ head[last'.l] = NULL
        /\ (last'.op = "EraseAfter" => last'.pos = Sentinel(last'.l))
        /\ last'.out \notin {"ub", "terminate"}) =>
          last'.out = "assert"]_vars

\* C18: a PushFront(v) or InsertAfter(pos, v) whose allocation fails ends
\* with std::bad_alloc at the caller and leaves the sentinel link, every
\* cell's link and value, and the count as they were before the call.
C18_InsertFailureLeavesContainer ==
    [][(last'.op \in {"PushFront", "InsertAfter"}) =>
          /\ Free(Now) = {} => last'.out \in {"bad_alloc", "terminate"}
          /\ (last'.op = "PushFront" /\ Free(Now) = {}) =>
                last'.out = "bad_alloc"
          /\ last'.out = "bad_alloc" =>
                /\ \A c \in Lists : live[c] => Untouched(c)
                /\ \A c \in Owned(Now) :
                      c \in alloc' /\ next'[c] = next[c] /\ val'[c] = val[c]
                /\ last'.op = "PushFront" => alloc' = alloc
                /\ live' = live
      ]_vars

C18_Witness ==
    /\ last.op = "InsertAfter" /\ last.out = "bad_alloc"
    /\ last.pos \in Cells
    /\ Len(Chain(Now, last.l)) = 2 /\ size[last.l] = 2
    /\ Elems(Now, last.l) = <<1, 2>>

\* C19: when an allocation fails partway through the copy constructor, the
\* initializer-list constructor or the temporary copy of operator=, every
\* cell that operation had allocated is deallocated before the failure
\* reaches the caller, so no allocated cell is left outside the chains of
\* the live containers.
C19_FailedBuildFreesItsCells ==
    [][(/\ last'.op \in {"CopyCtor", "InitListCtor", "CopyAssign"}
        /\ last'.out = "bad_alloc") =>
          /\ alloc' = alloc
          /\ alloc' \ Owned(After) \subseteq alloc \ Owned(Now)
      ]_vars

\* C20: for any two containers a and b exactly one of a < b, a == b, b < a
\* holds; a > b iff b < a, a <= b iff not (b < a), a >= b iff not (a < b);
\* and a <= b together with b <= a implies a == b.
C20_OrderIsConsistent ==
    /\ \A a, b \in Lists :
          LET lt == OpLt(Now, a, b)
              eq == OpEq(Now, a, b)
              gt == OpLt(Now, b, a)
          IN /\ \/ lt /\ ~eq /\ ~gt
                \/ ~lt /\ eq /\ ~gt
                \/ ~lt /\ ~eq /\ gt
             /\ OpGt(Now, a, b) = gt
             /\ OpLe(Now, a, b) = ~gt
             /\ OpGe(Now, a, b) = ~lt
             /\ OpNe(Now, a, b) = ~eq
             /\ (OpLe(Now, a, b) /\ OpLe(Now, b, a)) => eq
    /\ last.op = ">" => last.bret = OpLt(Now, last.r, last.l)
    /\ last.op = "<=" => last.bret = ~OpLt(Now, last.r, last.l)
    /\ last.op = ">=" => last.bret = ~OpLt(Now, last.l, last.r)
    /\ last.op = "<=" =>
          last.bret = \/ LengthFirstLess(Elems(Now, last.l), Elems(Now, last.r))
                      \/ SameElements(Elems(Now, last.l), Elems(Now, last.r))
    /\ last.op = ">=" =>
          last.bret = \/ LengthFirstLess(Elems(Now, last.r), Elems(Now, last.l))
                      \/ SameElements(Elems(Now, last.l), Elems(Now, last.r))
    /\ last.op = ">" =>
          last.bret = LengthFirstLess(Elems(Now, last.r), Elems(Now, last.l))

C20_Witness ==
    /\ last.op = "<=" /\ last.bret /\ last.l # last.r
    /\ Elems(Now, last.l) = <<1>> /\ Elems(Now, last.r) = <<2>>
    /\ ~OpLe(Now, last.r, last.l)

=============================================================================
